---- MODULE Spec2Model ----
(***************************************************************************)
(* Model of the document analysis server (src/server.js): the upload       *)
(* middleware, the text extractor, the prompt builder and the              *)
(* POST /api/analyze handler with its response decoding.                   *)
(*                                                                         *)
(* Texts (file names, MIME types, document text, LLM replies) are          *)
(* sequences of one-character strings, so that trimming, suffix tests,     *)
(* substring tests and fence stripping are computed as the code computes   *)
(* them.                                                                   *)
(***************************************************************************)
EXTENDS Integers, Sequences, FiniteSets, TLC

(***************************************************************************)
(* Bounds of the model.                                                    *)
(***************************************************************************)
\* largest number of cross files in a request
MaxCross == 2
\* long LLM replies have SnippetLen - MaxPadOver .. SnippetLen + MaxPadOver characters
MaxPadOver == 1

(***************************************************************************)
(* Program constants.                                                      *)
(***************************************************************************)
\* responseText.slice(0, 500)
SnippetLen == 500

DEPARTMENTS == <<"Finance", "Compliance", "Operations", "HR", "Board", "IT">>

\* the six output identifiers buildPrompt tests with outputs.includes(...)
OUTPUT_IDS == <<"translation", "summary", "key_points", "todos", "cross_reference", "generate_template">>

(***************************************************************************)
(* Text helpers (JavaScript String methods).                               *)
(***************************************************************************)
Range(s) == {s[i] : i \in 1..Len(s)}

Min(a, b) == IF a < b THEN a ELSE b

\* the characters String.prototype.trim and the regex class \s remove
Whitespace == {" ", "\n", "\t"}

UpperChars == <<"A","B","C","D","E","F","G","H","I","J","K","L","M","N","O","P","Q","R","S","T","U","V","W","X","Y","Z">>
LowerChars == <<"a","b","c","d","e","f","g","h","i","j","k","l","m","n","o","p","q","r","s","t","u","v","w","x","y","z">>

LowerChar(c) == IF \E i \in 1..Len(UpperChars) : UpperChars[i] = c
                THEN LowerChars[CHOOSE i \in 1..Len(UpperChars) : UpperChars[i] = c]
                ELSE c

\* String.prototype.toLowerCase
toLowerCase(s) == [i \in 1..Len(s) |-> LowerChar(s[i])]

\* s has t at position i (1-based)
HasAt(s, i, t) == /\ i >= 1
                  /\ i + Len(t) - 1 <= Len(s)
                  /\ \A k \in 1..Len(t) : s[i + k - 1] = t[k]

\* String.prototype.startsWith / endsWith / includes
startsWith(s, t) == HasAt(s, 1, t)
endsWith(s, t) == HasAt(s, Len(s) - Len(t) + 1, t)
includes(s, t) == \E i \in 1..(Len(s) + 1) : HasAt(s, i, t)

\* first position >= i of s that holds no whitespace (Len(s)+1 when none)
RECURSIVE SkipWs(_, _)
SkipWs(s, i) == IF i <= Len(s) /\ s[i] \in Whitespace THEN SkipWs(s, i + 1) ELSE i

\* last position <= i of s that holds no whitespace (0 when none)
RECURSIVE SkipWsBack(_, _)
SkipWsBack(s, i) == IF i >= 1 /\ s[i] \in Whitespace THEN SkipWsBack(s, i - 1) ELSE i

\* String.prototype.trim
trim(s) == SubSeq(s, SkipWs(s, 1), SkipWsBack(s, Len(s)))

\* String.prototype.slice(0, n)
slice0(s, n) == SubSeq(s, 1, Min(n, Len(s)))

\* Array.prototype.join for arrays of texts
RECURSIVE join(_, _)
join(parts, sep) == IF Len(parts) = 0 THEN <<>>
                    ELSE IF Len(parts) = 1 THEN parts[1]
                    ELSE parts[1] \o sep \o join(Tail(parts), sep)

\* decimal digits of a number below 100, as template interpolation prints it
DigitChars == <<"0","1","2","3","4","5","6","7","8","9">>
NumText(n) == IF n < 10 THEN <<DigitChars[n + 1]>>
              ELSE <<DigitChars[(n \div 10) + 1], DigitChars[(n % 10) + 1]>>

\* n copies of the character c
Pad(c, n) == [i \in 1..n |-> c]

(***************************************************************************)
(* Text literals of the source.                                            *)
(***************************************************************************)
PdfMime == <<"a","p","p","l","i","c","a","t","i","o","n","/","p","d","f">>
DocxMime == <<"a","p","p","l","i","c","a","t","i","o","n","/","v","n","d",".","o","p","e","n","x","m","l","f","o","r","m","a","t","s","-","o","f","f","i","c","e","d","o","c","u","m","e","n","t",".","w","o","r","d","p","r","o","c","e","s","s","i","n","g","m","l",".","d","o","c","u","m","e","n","t">>
Wordprocessingml == <<"w","o","r","d","p","r","o","c","e","s","s","i","n","g","m","l">>
DotPdf == <<".","p","d","f">>
DotDocx == <<".","d","o","c","x">>
\* the grave accent U+0060 (the lexer of TLA+ does not accept it inside a string)
BT == "BACKTICK"
Fence == <<BT, BT, BT>>
FenceJson == Fence \o <<"j","s","o","n">>
CrossHeadOpen == <<"-","-","-"," ","C","r","o","s","s"," ","d","o","c","u","m","e","n","t"," ">>
CrossHeadSep == <<":"," ">>
CrossHeadClose == <<" ","-","-","-">>
DefaultFileName == <<"f","i","l","e">>
NoneProvided == <<"(","n","o","n","e"," ","p","r","o","v","i","d","e","d",")">>

(***************************************************************************)
(* Upload middleware: multer's fileFilter.                                 *)
(***************************************************************************)
\* /\.(pdf|docx)$/i.test(name)
ExtRegexTest(name) == endsWith(toLowerCase(name), DotPdf) \/ endsWith(toLowerCase(name), DotDocx)

\* TRUE: cb(null, true); FALSE: cb(new Error("Only PDF and DOCX files are allowed"))
fileFilter(file) == file.mimetype \in {PdfMime, DocxMime} \/ ExtRegexTest(file.originalname)

(***************************************************************************)
(* Text extractor.                                                         *)
(***************************************************************************)
\* what pdf-parse / mammoth may do with a buffer: throw, or return an
\* object whose text is missing (undefined) or some text
LibraryOutcomes ==
  { [threw |-> TRUE,  hasText |-> FALSE, text |-> <<>>],
    [threw |-> FALSE, hasText |-> FALSE, text |-> <<>>],
    [threw |-> FALSE, hasText |-> TRUE,  text |-> <<>>],
    [threw |-> FALSE, hasText |-> TRUE,  text |-> <<" ", "\n">>],
    [threw |-> FALSE, hasText |-> TRUE,  text |-> <<" ", "d", "\n">>] }

isPdf(file) == endsWith(toLowerCase(file.originalname), DotPdf) \/ toLowerCase(file.mimetype) = PdfMime
isDocx(file) == endsWith(toLowerCase(file.originalname), DotDocx) \/ includes(toLowerCase(file.mimetype), Wordprocessingml)

\* extractText(file) when the library answers lib: the text, or the error
\* thrown (statusCode 0 stands for an error without a statusCode)
extractText(file, lib) ==
  IF isPdf(file) \/ isDocx(file)
  THEN IF lib.threw
       THEN [threw |-> TRUE, statusCode |-> 0, message |-> "extraction library error",
             kind |-> IF isPdf(file) THEN "pdf" ELSE "docx", text |-> <<>>]
       ELSE [threw |-> FALSE, statusCode |-> 0, message |-> "",
             kind |-> IF isPdf(file) THEN "pdf" ELSE "docx",
             text |-> trim(IF lib.hasText THEN lib.text ELSE <<>>)]
  ELSE [threw |-> TRUE, statusCode |-> 400, message |-> "Unsupported file type",
        kind |-> "none", text |-> <<>>]

(***************************************************************************)
(* JSON.parse, for the JSON texts of the model: numbers, strings without   *)
(* escapes, the three literals, arrays and objects, with whitespace        *)
(* between tokens.                                                         *)
(***************************************************************************)
JsonDigits == {"0","1","2","3","4","5","6","7","8","9"}
JsonLiterals == {<<"n","u","l","l">>, <<"t","r","u","e">>, <<"f","a","l","s","e">>}

\* position after the run of digits that starts at i
RECURSIVE SkipDigits(_, _)
SkipDigits(s, i) == IF i <= Len(s) /\ s[i] \in JsonDigits THEN SkipDigits(s, i + 1) ELSE i

\* position after the closing quote of the string whose body starts at i, 0 when unterminated
RECURSIVE SkipString(_, _)
SkipString(s, i) == IF i > Len(s) THEN 0
                    ELSE IF s[i] = "\"" THEN i + 1
                    ELSE IF s[i] = "\n" THEN 0
                    ELSE SkipString(s, i + 1)

\* Each parser gives the set of the positions after what it parsed from
\* position i: one position, or none on a syntax error.
RECURSIVE ValueEnds(_, _), ElementsEnds(_, _), MembersEnds(_, _)

\* after an element of an array: a comma and more elements, or the closing bracket
AfterElement(s, k) ==
  IF k > Len(s) THEN {}
  ELSE IF s[k] = "," THEN ElementsEnds(s, k + 1)
  ELSE IF s[k] = "]" THEN {k + 1}
  ELSE {}

\* after a member of an object: a comma and more members, or the closing brace
AfterMember(s, k) ==
  IF k > Len(s) THEN {}
  ELSE IF s[k] = "," THEN MembersEnds(s, k + 1)
  ELSE IF s[k] = "}" THEN {k + 1}
  ELSE {}

\* the value that starts at the non-whitespace position j
ValueAt(s, j) ==
  IF j > Len(s) THEN {}
  ELSE IF s[j] = "0" THEN {j + 1}
  ELSE IF s[j] \in JsonDigits THEN {SkipDigits(s, j)}
  ELSE IF s[j] = "\"" THEN {SkipString(s, j + 1)} \ {0}
  ELSE IF \E l \in JsonLiterals : HasAt(s, j, l)
       THEN {j + Len(l) : l \in {m \in JsonLiterals : HasAt(s, j, m)}}
  ELSE IF s[j] = "[" THEN
       UNION {IF k <= Len(s) /\ s[k] = "]" THEN {k + 1} ELSE ElementsEnds(s, j + 1)
              : k \in {SkipWs(s, j + 1)}}
  ELSE IF s[j] = "{" THEN
       UNION {IF k <= Len(s) /\ s[k] = "}" THEN {k + 1} ELSE MembersEnds(s, j + 1)
              : k \in {SkipWs(s, j + 1)}}
  ELSE {}

ValueEnds(s, i) == UNION {ValueAt(s, j) : j \in {SkipWs(s, i)}}

ElementsEnds(s, i) ==
  UNION {UNION {AfterElement(s, k) : k \in {SkipWs(s, e)}} : e \in ValueEnds(s, i)}

\* the position after the name of a member and its colon, from the non-whitespace position j
NameEnds(s, j) ==
  IF j > Len(s) \/ s[j] # "\"" THEN {}
  ELSE UNION {UNION {IF c <= Len(s) /\ s[c] = ":" THEN {c + 1} ELSE {} : c \in {SkipWs(s, q)}}
              : q \in {SkipString(s, j + 1)} \ {0}}

MembersEnds(s, i) ==
  UNION {UNION {UNION {AfterMember(s, k) : k \in {SkipWs(s, e)}} : e \in ValueEnds(s, v)}
         : v \in UNION {NameEnds(s, j) : j \in {SkipWs(s, i)}}}

\* s is one JSON value with optional whitespace around it
IsJson(s) == \E e \in ValueEnds(s, 1) : SkipWs(s, e) = Len(s) + 1

\* the parsed value, written as the JSON text without the whitespace
\* between tokens: two texts parse to the same value iff these are equal
RECURSIVE JsonValueFrom(_, _, _)
JsonValueFrom(s, i, inString) ==
  IF i > Len(s) THEN <<>>
  ELSE IF s[i] = "\"" THEN <<s[i]>> \o JsonValueFrom(s, i + 1, ~inString)
  ELSE IF ~inString /\ s[i] \in Whitespace THEN JsonValueFrom(s, i + 1, inString)
  ELSE <<s[i]>> \o JsonValueFrom(s, i + 1, inString)

\* JSON.parse(s): ok = FALSE when it throws a SyntaxError
JSONparse(s) == IF IsJson(s) THEN [ok |-> TRUE, value |-> JsonValueFrom(s, 1, FALSE)]
                ELSE [ok |-> FALSE, value |-> <<>>]

\* the keys of the members of a parsed object: the strings at nesting depth
\* one that a colon follows; no keys for a value that is no object
InStringAt(v, j) == Cardinality({k \in 1..(j - 1) : v[k] = "\""}) % 2 = 1
DepthAt(v, j) ==
  Cardinality({k \in 1..(j - 1) : v[k] \in {"{", "["} /\ ~InStringAt(v, k)})
  - Cardinality({k \in 1..(j - 1) : v[k] \in {"}", "]"} /\ ~InStringAt(v, k)})
ObjectKeys(v) ==
  IF v = <<>> \/ v[1] # "{" THEN {}
  ELSE {SubSeq(v, j + 1, SkipString(v, j + 1) - 2) :
          j \in {q \in 1..Len(v) : /\ v[q] = "\""
                                   /\ ~InStringAt(v, q)
                                   /\ DepthAt(v, q) = 1
                                   /\ SkipString(v, q + 1) \in 1..Len(v)
                                   /\ v[SkipString(v, q + 1)] = ":"}}

(***************************************************************************)
(* Response decoding.                                                      *)
(***************************************************************************)
\* responseText.replace(/^```json\s*|```$/g, ""): without the m flag the
\* first alternative matches only at the start of the text and the second
\* only at its very end
replaceFences(s) ==
  LET afterOpen == IF startsWith(s, FenceJson)
                   THEN SubSeq(s, SkipWs(s, Len(FenceJson) + 1), Len(s))
                   ELSE s
  IN IF endsWith(afterOpen, Fence) THEN SubSeq(afterOpen, 1, Len(afterOpen) - Len(Fence))
     ELSE afterOpen

\* const cleaned = responseText.replace(...).trim()
cleaned(responseText) == trim(replaceFences(responseText))

\* a mutation of decode: a parsed value that is no object is replaced by {}
decodeObjectsOnly(responseText) ==
  CHOOSE d \in {IF p.ok /\ p.value[1] # "{" THEN [ok |-> TRUE, value |-> <<"{", "}">>] ELSE p
                : p \in {JSONparse(text) : text \in {cleaned(responseText)}}} : TRUE

\* the try block around JSON.parse (the cleaned text is bound once)
decode(responseText) ==
  CHOOSE d \in {JSONparse(text) : text \in {cleaned(responseText)}} : TRUE

\* a mutation of details: the whole reply is sent, without slice
detailsWithoutSlice(responseText) == responseText

\* details: responseText.slice(0, 500)
details(responseText) == slice0(responseText, SnippetLen)

(***************************************************************************)
(* Prompt builder.  The prompt is the sequence of the lines of the         *)
(* template literal: lit is the literal text of the line, key the JSON     *)
(* field a requirement line names, arg the interpolated value.             *)
(***************************************************************************)
Line(lit) == [lit |-> lit, key |-> "", arg |-> <<>>]
ArgLine(lit, arg) == [lit |-> lit, key |-> "", arg |-> arg]
BlankLine == Line("")

\* Array.prototype.includes on the outputs array
outputsInclude(outputs, id) == id \in Range(outputs)

\* the field named by the requirement line of an output identifier
OutputField(id) ==
  CASE id = "translation" -> "translated_text"
    [] id = "summary" -> "summary"
    [] id = "key_points" -> "key_points"
    [] id = "todos" -> "todos_by_department"
    [] id = "cross_reference" -> "cross_reference"
    [] id = "generate_template" -> "response_template"

\* the text of the requirement line of an output identifier, with
\* DEPARTMENTS.join(", ") written out
OutputInstruction(id) ==
  CASE id = "translation" -> "- \"translated_text\": Full translation of the main document."
    [] id = "summary" -> "- \"summary\": Detailed summary (8-12 sentences) including key context, decisions, constraints, and risks."
    [] id = "key_points" -> "- \"key_points\": Array of { \"point\": string, \"department\": one of [Finance, Compliance, Operations, HR, Board, IT], \"tags\": string[] }"
    [] id = "todos" -> "- \"todos_by_department\": Object with keys Finance, Compliance, Operations, HR, Board, IT, each containing array of { \"task\": string, \"source_point\": string }"
    [] id = "cross_reference" -> "- \"cross_reference\": Array of { \"question\": string, \"answer\": string, \"found_in\": string, \"confidence\": \"low\"|\"medium\"|\"high\" }. Search cross documents for answers to questions/requests in main document."
    [] id = "generate_template" -> "- \"response_template\": A structured email/letter reply template. Include greeting, reference to inquiry, key answers (use cross-document data if available), and closing. Use [PLACEHOLDER] for missing info."

\* a mutation of requirementWanted: the template line is tied to cross_reference
requirementWantedTemplateSlip(outputs, id) ==
  IF id = "generate_template" THEN outputsInclude(outputs, "cross_reference")
  ELSE outputsInclude(outputs, id)

\* the condition of the requirement line of id
requirementWanted(outputs, id) == outputsInclude(outputs, id)

\* one line of "Output requirements": the line of id, or an empty line
requirementLine(outputs, id) ==
  IF requirementWanted(outputs, id)
  THEN [lit |-> OutputInstruction(id), key |-> OutputField(id), arg |-> <<>>]
  ELSE BlankLine

\* a mutation of crossSectionWanted: generate_template is forgotten
crossSectionWantedCrossOnly(outputs) == outputsInclude(outputs, "cross_reference")

\* wantsCross || wantsTemplate, the condition of the cross-document section
crossSectionWanted(outputs) ==
  outputsInclude(outputs, "cross_reference") \/ outputsInclude(outputs, "generate_template")

CrossHeaderLit == "=== CROSS DOCUMENTS ==="

\* the last interpolation of the template
crossSection(outputs, crossText) ==
  IF crossSectionWanted(outputs)
  THEN << Line(CrossHeaderLit),
          ArgLine("", IF crossText # <<>> THEN crossText ELSE NoneProvided) >>
  ELSE << BlankLine >>

buildPrompt(outputs, targetLang, docText, crossText) ==
  << Line("You are a document analysis assistant. Analyze the provided document and return ONLY valid JSON."),
     BlankLine,
     ArgLine("Target language: ", targetLang),
     ArgLine("Requested outputs: ", outputs),
     ArgLine("Allowed departments: ", DEPARTMENTS),
     BlankLine,
     Line("Instructions:"),
     Line("- Use ONLY the MAIN DOCUMENT for translation, summary, key_points, and todos."),
     Line("- Use CROSS DOCUMENTS (if provided) for cross_reference and to help fill response_template."),
     BlankLine,
     Line("Output requirements:") >>
  \o [k \in 1..Len(OUTPUT_IDS) |-> requirementLine(outputs, OUTPUT_IDS[k])]
  \o << BlankLine,
        Line("Return ONLY the JSON object with the requested fields. No markdown, no explanations."),
        BlankLine,
        Line("=== MAIN DOCUMENT ==="),
        ArgLine("", docText),
        BlankLine >>
  \o crossSection(outputs, crossText)

(***************************************************************************)
(* The requests and the outcomes of the collaborators of the model.        *)
(***************************************************************************)
File(name, mime) == [originalname |-> name, mimetype |-> mime]

TextMime == <<"t","e","x","t","/","p","l","a","i","n">>
OctetMime == <<"a","p","p","l","i","c","a","t","i","o","n","/","o","c","t","e","t","-","s","t","r","e","a","m">>

FilePdf == File(<<"a",".","p","d","f">>, PdfMime)
FileDocx == File(<<"b",".","d","o","c","x">>, DocxMime)
FileTxt == File(<<"c",".","t","x","t">>, TextMime)
FileUpperPdf == File(<<"d",".","P","D","F">>, OctetMime)
FileDocxNamedPdfMime == File(<<"e",".","d","o","c","x">>, PdfMime)
FileNoName == File(<<>>, DocxMime)

MainFiles == {FilePdf, FileTxt, FileUpperPdf, FileDocxNamedPdfMime}
CrossFiles == {FileDocx, FileTxt, FileNoName}

\* the sequences over S of length at most n
RECURSIVE SeqsUpTo(_, _)
SeqsUpTo(S, n) == IF n = 0 THEN {<<>>}
                  ELSE LET shorter == SeqsUpTo(S, n - 1)
                       IN shorter \cup {Append(q, x) : q \in shorter, x \in S}

\* the identifiers of S in the order of OUTPUT_IDS
InOrder(S) == SelectSeq(OUTPUT_IDS, LAMBDA id : id \in S)

\* req.body.outputs as the multipart parser leaves it: missing, one string, or an array
NoOutputsField == [tag |-> "undefined", str |-> "", arr |-> <<>>]
OutputsString(v) == [tag |-> "string", str |-> v, arr |-> <<>>]
OutputsArray(a) == [tag |-> "array", str |-> "", arr |-> a]

BodyOutputs ==
  {NoOutputsField, OutputsString("summary"), OutputsString("")}
  \cup {OutputsArray(InOrder(S)) : S \in SUBSET Range(OUTPUT_IDS)}
  \cup {OutputsArray(<<"">>), OutputsArray(<<"summary", "summary">>),
        OutputsArray(<<"other", "summary">>), OutputsArray(<<"generate_template", "translation">>)}

\* req.body.targetLanguage: missing, blank, or a language name with spaces around it
NoLanguageField == [present |-> FALSE, text |-> <<>>]
BodyLanguages == {NoLanguageField,
                  [present |-> TRUE, text |-> <<" ", " ">>],
                  [present |-> TRUE, text |-> <<" ", "e", "n", " ">>]}

Requests == [file : {<<>>} \cup {<<f>> : f \in MainFiles},
             crossFiles : SeqsUpTo(CrossFiles, MaxCross),
             targetLanguage : BodyLanguages,
             outputs : BodyOutputs]

\* JSON texts an LLM may answer with, and the ways it may wrap them
JsonObjectText == <<"{","\"","a","\"",":","1","}">>
JsonArrayText == <<"[","1",","," ","1","]">>
JsonSummaryText == <<"{","\"","s","u","m","m","a","r","y","\"",":","1","}">>
JsonTexts == {JsonObjectText, JsonArrayText, JsonSummaryText}

Wrappings == {"raw", "json fence", "bare fence"}
Wrap(w, t) == CASE w = "raw" -> t
                [] w = "json fence" -> FenceJson \o <<"\n">> \o t \o <<"\n">> \o Fence
                [] w = "bare fence" -> Fence \o <<"\n">> \o t \o <<"\n">> \o Fence

Surroundings == {"none", "leading", "trailing"}
Surround(u, t) == CASE u = "none" -> t
                    [] u = "leading" -> <<" ">> \o t
                    [] u = "trailing" -> t \o <<"\n">>

NotJsonText == <<"n","o","t"," ","j","s","o","n">>
PartialJsonText == <<"{","\"","a","\"",":">>

ReplyTexts ==
  {Surround(u, Wrap(w, t)) : u \in Surroundings, w \in Wrappings, t \in JsonTexts}
  \cup {<<>>, <<" ", "\n">>, NotJsonText, PartialJsonText, Wrap("json fence", NotJsonText)}
  \cup {Pad("x", n) : n \in (SnippetLen - MaxPadOver)..(SnippetLen + MaxPadOver)}

TextBlock(t) == [type |-> "text", text |-> t]
OtherBlock(t) == [type |-> "tool_use", text |-> t]

\* what anthropic.messages.create may do: throw, or return a message whose
\* content is a list of blocks
LLMOutcomes ==
  {[threw |-> TRUE, content |-> <<>>]}
  \cup {[threw |-> FALSE, content |-> <<TextBlock(t)>>] : t \in ReplyTexts}
  \cup {[threw |-> FALSE, content |-> <<>>],
        [threw |-> FALSE, content |-> <<OtherBlock(NotJsonText), TextBlock(JsonObjectText)>>],
        [threw |-> FALSE, content |-> <<TextBlock(FenceJson \o <<"\n">>), OtherBlock(NotJsonText),
                                        TextBlock(JsonObjectText \o <<"\n">> \o Fence)>>]}

(***************************************************************************)
(* State.                                                                  *)
(***************************************************************************)
VARIABLES
  apiKeySet,     \* process.env.ANTHROPIC_API_KEY is set
  req,           \* the request: req.files and req.body
  pc,            \* the position of the request
  targetLang,    \* const targetLang
  outputs,       \* let outputs
  docText,       \* const docText
  i,             \* the loop variable of the cross-file loop
  parts,         \* const parts
  crossText,     \* let crossText
  prompt,        \* const prompt
  responseText,  \* const responseText
  res,           \* the response sent, status 0 while none is sent
  responses,     \* how many responses were sent
  extractLog,    \* the calls of extractText, in order
  llmLog,        \* the calls of anthropic.messages.create, in order
  trace          \* the steps the request ran, in order

\* two requests handled at the same time
VARIABLES
  calls,         \* per invocation of the handler: req, res and the position
  frames,        \* the local variables of the invocations of the handler
  inputs         \* per invocation: what the extractor and the LLM answered, in order

concVars == <<calls, frames, inputs>>

\* the browser client
VARIABLES
  selected,              \* the checked output checkboxes
  fileChosen,            \* fileInput holds a file
  analyzeDisabled,       \* analyzeBtn.disabled
  statusText,            \* statusEl.textContent
  lastResult,            \* let lastResult
  originalTemplateText,  \* let originalTemplateText
  keyPointsView,         \* what keyPointsEl shows
  todosView,             \* what todosEl shows
  pending,               \* the submit handlers waiting for their fetch
  submitted,             \* how many requests were sent
  lastResultFrom,        \* the request whose response lastResult is, 0 for none
  clearedSince,          \* Clear was clicked after the last request was sent
  latestFailed,          \* the last request that was sent has failed
  download,              \* the last file handed to downloadBlob
  exportThrew            \* the last click on an export button ended in an uncaught exception

clientVars == <<selected, fileChosen, analyzeDisabled, statusText, lastResult, originalTemplateText,
                keyPointsView, todosView, pending, submitted, lastResultFrom, clearedSince,
                latestFailed, download, exportThrew>>
otherVars == <<concVars, clientVars>>

vars == <<apiKeySet, req, pc, targetLang, outputs, docText, i, parts, crossText,
          prompt, responseText, res, responses, extractLog, llmLog, trace, otherVars>>

NoResponse == [status |-> 0, error |-> "", details |-> <<>>, body |-> <<>>]

\* no second request is running
ConcIdle == calls = <<>> /\ frames = <<>> /\ inputs = <<>>

\* no page is open
NoView == [note |-> "No data yet."]
NoDownload == [filename |-> "", content |-> <<>>]
ClientIdle ==
  /\ selected = {} /\ fileChosen = FALSE /\ analyzeDisabled = TRUE /\ statusText = ""
  /\ lastResult = [t |-> "null", v |-> <<>>]
  /\ originalTemplateText = [t |-> "str", v |-> <<>>]
  /\ keyPointsView = NoView /\ todosView = NoView
  /\ pending = {} /\ submitted = 0 /\ lastResultFrom = 0 /\ clearedSince = FALSE
  /\ latestFailed = FALSE /\ download = NoDownload /\ exportThrew = FALSE

Init ==
  /\ ConcIdle
  /\ ClientIdle
  /\ apiKeySet \in BOOLEAN
  /\ req \in Requests
  /\ pc = "upload"
  /\ targetLang = <<>>
  /\ outputs = <<>>
  /\ docText = <<>>
  /\ i = 0
  /\ parts = <<>>
  /\ crossText = <<>>
  /\ prompt = <<>>
  /\ responseText = <<>>
  /\ res = NoResponse
  /\ responses = 0
  /\ extractLog = <<>>
  /\ llmLog = <<>>
  /\ trace = <<>>

\* res.status(status).json({error}) or res.json(body), then the handler returns
Respond(r) ==
  /\ res' = r
  /\ responses' = responses + 1
  /\ pc' = "done"

ErrorResponse(status, error) == [status |-> status, error |-> error, details |-> <<>>, body |-> <<>>]

\* the catch block of the handler: err.statusCode || 500, err.message
catchResponse(err) ==
  ErrorResponse(IF err.statusCode # 0 THEN err.statusCode ELSE 500, err.message)

(***************************************************************************)
(* upload.fields(...): the multipart parser runs fileFilter on every file. *)
(* A rejected file makes it pass the error on, the handler is not called   *)
(* and the default error handler of the framework answers 500.             *)
(***************************************************************************)
uploadAccepts(r) == \A f \in Range(r.file) \cup Range(r.crossFiles) : fileFilter(f)

Upload ==
  /\ pc = "upload"
  /\ IF uploadAccepts(req)
     THEN /\ pc' = "validate"
          /\ UNCHANGED <<res, responses, trace>>
     ELSE /\ Respond(ErrorResponse(500, "Only PDF and DOCX files are allowed"))
          /\ trace' = Append(trace, "respond")
  /\ UNCHANGED <<apiKeySet, req, targetLang, outputs, docText, i, parts, crossText,
                 prompt, responseText, extractLog, llmLog>>
  /\ UNCHANGED otherVars

(***************************************************************************)
(* The handler, lines 96-116: validation.                                  *)
(***************************************************************************)
\* (req.body.targetLanguage || "").trim()
trimmedLanguage(r) == trim(IF r.targetLanguage.present THEN r.targetLanguage.text ELSE <<>>)

\* a mutation of normalizedOutputs: identifiers outside the enumeration are dropped
normalizedOutputsEnumerated(r) ==
  LET raw == r.outputs
      arr == IF raw.tag = "array" THEN raw.arr
             ELSE IF raw.tag = "string" /\ raw.str # "" THEN <<raw.str>>
             ELSE <<>>
  IN SelectSeq(arr, LAMBDA v : v \in Range(OUTPUT_IDS))

\* req.body.outputs || [], wrapped in an array when it is none, without falsy entries
normalizedOutputs(r) ==
  LET raw == r.outputs
      arr == IF raw.tag = "array" THEN raw.arr
             ELSE IF raw.tag = "string" /\ raw.str # "" THEN <<raw.str>>
             ELSE <<>>
  IN SelectSeq(arr, LAMBDA v : v # "")

\* a mutation of validate: the check of the outputs is missing
validateWithoutOutputsCheck(keySet, r) ==
  IF ~keySet THEN ErrorResponse(500, "ANTHROPIC_API_KEY is not set")
  ELSE IF r.file = <<>> THEN ErrorResponse(400, "Missing file upload")
  ELSE IF trimmedLanguage(r) = <<>> THEN ErrorResponse(400, "Missing targetLanguage")
  ELSE NoResponse

\* the response of the first check that fails, NoResponse when all pass
validate(keySet, r) ==
  IF ~keySet THEN ErrorResponse(500, "ANTHROPIC_API_KEY is not set")
  ELSE IF r.file = <<>> THEN ErrorResponse(400, "Missing file upload")
  ELSE IF trimmedLanguage(r) = <<>> THEN ErrorResponse(400, "Missing targetLanguage")
  ELSE IF normalizedOutputs(r) = <<>> THEN ErrorResponse(400, "Select at least one output")
  ELSE NoResponse

Validate ==
  /\ pc = "validate"
  /\ LET v == validate(apiKeySet, req) IN
     IF v # NoResponse
     THEN /\ Respond(v)
          /\ trace' = trace \o <<"validate", "respond">>
          /\ UNCHANGED <<targetLang, outputs>>
     ELSE /\ targetLang' = trimmedLanguage(req)
          /\ outputs' = normalizedOutputs(req)
          /\ pc' = "extractMain"
          /\ trace' = Append(trace, "validate")
          /\ UNCHANGED <<res, responses>>
  /\ UNCHANGED <<apiKeySet, req, docText, i, parts, crossText, prompt, responseText,
                 extractLog, llmLog>>
  /\ UNCHANGED otherVars

(***************************************************************************)
(* Lines 118-122: the text of the main file.                               *)
(***************************************************************************)
LogEntry(who, r) == [who |-> who, kind |-> r.kind, threw |-> r.threw, empty |-> r.text = <<>>,
                     text |-> r.text]

\* a mutation of isFalsyText: the empty text is let through
isFalsyTextNever(t) == FALSE

\* !docText, and the test if (t) of the cross loop, negated
isFalsyText(t) == t = <<>>

\* outputs.includes("cross_reference") || outputs.includes("generate_template"), line 126
wantsCross(outs) == outputsInclude(outs, "cross_reference") \/ outputsInclude(outs, "generate_template")

ExtractMain ==
  /\ pc = "extractMain"
  /\ \E lib \in LibraryOutcomes :
       LET r == extractText(req.file[1], lib) IN
       /\ extractLog' = Append(extractLog, LogEntry(0, r))
       /\ IF r.threw
          THEN /\ Respond(catchResponse(r))
               /\ trace' = trace \o <<"extractMain", "respond">>
               /\ UNCHANGED <<docText, crossText>>
          ELSE /\ docText' = r.text
               /\ IF isFalsyText(r.text)
                  THEN /\ Respond(ErrorResponse(400, "Could not extract text from the uploaded file"))
                       /\ trace' = trace \o <<"extractMain", "respond">>
                       /\ UNCHANGED crossText
                  ELSE /\ trace' = Append(trace, "extractMain")
                       /\ crossText' = <<>>
                       /\ pc' = IF wantsCross(outputs) /\ Len(req.crossFiles) > 0
                                THEN "extractCross" ELSE "buildPrompt"
                       /\ UNCHANGED <<res, responses>>
  /\ UNCHANGED <<apiKeySet, req, targetLang, outputs, i, parts, prompt, responseText, llmLog>>
  /\ UNCHANGED otherVars

(***************************************************************************)
(* Lines 127-135: one iteration of the loop over the cross files; the      *)
(* last one joins the parts.                                               *)
(***************************************************************************)
\* a mutation of crossPart: the header counts the retained files
crossPartRetainedIndex(idx, f, t) ==
  CrossHeadOpen \o NumText(Len(parts) + 1) \o CrossHeadSep
  \o (IF f.originalname # <<>> THEN f.originalname ELSE DefaultFileName)
  \o CrossHeadClose \o <<"\n">> \o t

\* `--- Cross document ${i + 1}: ${f.originalname || "file"} ---\n${t}`
crossPart(idx, f, t) ==
  CrossHeadOpen \o NumText(idx + 1) \o CrossHeadSep
  \o (IF f.originalname # <<>> THEN f.originalname ELSE DefaultFileName)
  \o CrossHeadClose \o <<"\n">> \o t

ExtractCross ==
  /\ pc = "extractCross"
  /\ i < Len(req.crossFiles)
  /\ \E lib \in LibraryOutcomes :
       LET f == req.crossFiles[i + 1]
           r == extractText(f, lib)
       IN
       /\ extractLog' = Append(extractLog, LogEntry(i + 1, r))
       /\ IF r.threw
          THEN /\ Respond(catchResponse(r))
               /\ trace' = trace \o <<"extractCross", "respond">>
               /\ UNCHANGED <<i, parts, crossText>>
          ELSE LET newParts == IF isFalsyText(r.text) THEN parts
                               ELSE Append(parts, crossPart(i, f, r.text))
               IN
               /\ parts' = newParts
               /\ i' = i + 1
               /\ trace' = Append(trace, "extractCross")
               /\ IF i + 1 < Len(req.crossFiles)
                  THEN UNCHANGED <<pc, crossText>>
                  ELSE /\ crossText' = join(newParts, <<"\n", "\n">>)
                       /\ pc' = "buildPrompt"
               /\ UNCHANGED <<res, responses>>
  /\ UNCHANGED <<apiKeySet, req, targetLang, outputs, docText, prompt, responseText, llmLog>>
  /\ UNCHANGED otherVars

(***************************************************************************)
(* Line 138: the prompt.                                                   *)
(***************************************************************************)
BuildPrompt ==
  /\ pc = "buildPrompt"
  /\ prompt' = buildPrompt(outputs, targetLang, docText, crossText)
  /\ pc' = "callLLM"
  /\ trace' = Append(trace, "buildPrompt")
  /\ UNCHANGED <<apiKeySet, req, targetLang, outputs, docText, i, parts, crossText,
                 responseText, res, responses, extractLog, llmLog>>
  /\ UNCHANGED otherVars

(***************************************************************************)
(* Lines 140-150: the call of the LLM and the text of its reply.           *)
(***************************************************************************)
\* message.content.filter(b => b.type === "text").map(b => b.text).join("")
textOf(content) ==
  LET texts == SelectSeq(content, LAMBDA b : b.type = "text")
  IN join([k \in 1..Len(texts) |-> texts[k].text], <<>>)

LLMError == [threw |-> TRUE, statusCode |-> 0, message |-> "provider error"]

\* a mutation of CallLLM: a failed call is repeated once
CallLLMWithRetry ==
  /\ pc = "callLLM"
  /\ \E out \in LLMOutcomes :
       /\ llmLog' = Append(llmLog, IF out.threw THEN "threw" ELSE "returned")
       /\ IF out.threw /\ Len(llmLog) = 0
          THEN UNCHANGED <<pc, res, responses, trace, responseText>>
          ELSE IF out.threw
          THEN /\ Respond(catchResponse(LLMError))
               /\ trace' = trace \o <<"callLLM", "respond">>
               /\ UNCHANGED responseText
          ELSE /\ responseText' = textOf(out.content)
               /\ pc' = "decode"
               /\ trace' = Append(trace, "callLLM")
               /\ UNCHANGED <<res, responses>>
  /\ UNCHANGED <<apiKeySet, req, targetLang, outputs, docText, i, parts, crossText,
                 prompt, extractLog>>
  /\ UNCHANGED otherVars

CallLLM ==
  /\ pc = "callLLM"
  /\ \E out \in LLMOutcomes :
       /\ llmLog' = Append(llmLog, IF out.threw THEN "threw" ELSE "returned")
       /\ IF out.threw
          THEN /\ Respond(catchResponse(LLMError))
               /\ trace' = trace \o <<"callLLM", "respond">>
               /\ UNCHANGED responseText
          ELSE /\ responseText' = textOf(out.content)
               /\ pc' = "decode"
               /\ trace' = Append(trace, "callLLM")
               /\ UNCHANGED <<res, responses>>
  /\ UNCHANGED <<apiKeySet, req, targetLang, outputs, docText, i, parts, crossText,
                 prompt, extractLog>>
  /\ UNCHANGED otherVars

(***************************************************************************)
(* Lines 152-164: decoding and the answer.                                 *)
(***************************************************************************)
NonJsonResponse(text) ==
  [status |-> 502, error |-> "Claude returned non-JSON output", details |-> details(text), body |-> <<>>]

\* the field of the result named by an output identifier, as text
FieldText(id) ==
  CASE id = "translation" -> <<"t","r","a","n","s","l","a","t","e","d","_","t","e","x","t">>
    [] id = "summary" -> <<"s","u","m","m","a","r","y">>
    [] id = "key_points" -> <<"k","e","y","_","p","o","i","n","t","s">>
    [] id = "todos" -> <<"t","o","d","o","s","_","b","y","_","d","e","p","a","r","t","m","e","n","t">>
    [] id = "cross_reference" -> <<"c","r","o","s","s","_","r","e","f","e","r","e","n","c","e">>
    [] id = "generate_template" -> <<"r","e","s","p","o","n","s","e","_","t","e","m","p","l","a","t","e">>
    [] OTHER -> <<>>
RequestedFields == {FieldText(id) : id \in Range(outputs)} \ {<<>>}

\* a mutation of SuccessResponse: a result with a key that was not requested is answered as {}
SuccessResponseRequestedOnly(value) ==
  [status |-> 200, error |-> "", details |-> <<>>,
   body |-> IF ObjectKeys(value) \subseteq RequestedFields THEN value ELSE <<"{", "}">>]

SuccessResponse(value) == [status |-> 200, error |-> "", details |-> <<>>, body |-> value]

\* a mutation of Decode: the catch block lacks its return, so res.json(result) follows
DecodeWithoutReturn ==
  /\ pc = "decode"
  /\ LET d == decode(responseText) IN
     IF d.ok
     THEN /\ Respond(SuccessResponse(d.value))
          /\ trace' = trace \o <<"decode", "respond">>
     ELSE /\ res' = NonJsonResponse(responseText)
          /\ responses' = responses + 2
          /\ pc' = "done"
          /\ trace' = trace \o <<"decode", "respond", "respond">>
  /\ UNCHANGED <<apiKeySet, req, targetLang, outputs, docText, i, parts, crossText,
                 prompt, responseText, extractLog, llmLog>>
  /\ UNCHANGED otherVars

Decode ==
  /\ pc = "decode"
  /\ LET d == decode(responseText) IN
     /\ Respond(IF d.ok THEN SuccessResponse(d.value) ELSE NonJsonResponse(responseText))
     /\ trace' = trace \o <<"decode", "respond">>
  /\ UNCHANGED <<apiKeySet, req, targetLang, outputs, docText, i, parts, crossText,
                 prompt, responseText, extractLog, llmLog>>
  /\ UNCHANGED otherVars

Next ==
  \/ Upload
  \/ Validate
  \/ ExtractMain
  \/ ExtractCross
  \/ BuildPrompt
  \/ CallLLM
  \/ Decode

Spec == Init /\ [][Next]_vars

\* the requests of the fair specification: every file, language and
\* credential case, with a few of the outputs fields
FairBodyOutputs == {NoOutputsField, OutputsArray(<<"summary">>),
                    OutputsArray(<<"key_points", "cross_reference">>),
                    OutputsArray(<<"generate_template">>)}

FairInit == Init /\ req.outputs \in FairBodyOutputs

\* the event loop runs every continuation once the extractor or the LLM
\* call has returned or failed
FairSpec == FairInit /\ [][Next]_vars /\ WF_vars(Next)

TypeOK ==
  /\ apiKeySet \in BOOLEAN
  /\ pc \in {"upload", "validate", "extractMain", "extractCross", "buildPrompt", "callLLM", "decode", "done"}
  /\ i \in 0..Len(req.crossFiles)
  /\ responses \in 0..1
  /\ res.status \in {0, 200, 400, 500, 502}

(***************************************************************************)
(* Properties.                                                             *)
(***************************************************************************)
Done == pc = "done"
DecodeRan == "decode" \in Range(trace)
PromptBuilt == "buildPrompt" \in Range(trace)
IsPrefix(p, t) == Len(p) <= Len(t) /\ \A k \in 1..Len(p) : p[k] = t[k]
CountOf(q, x) == Cardinality({k \in 1..Len(q) : q[k] = x})

CrossExtractionThrew == \E k \in 1..Len(extractLog) : extractLog[k].who > 0 /\ extractLog[k].threw
MainExtractionThrew == \E k \in 1..Len(extractLog) : extractLog[k].who = 0 /\ extractLog[k].threw

\* C1 (as claimed): when the extraction of a cross file throws, the file is
\* skipped: the request still builds the prompt, calls the LLM once and is
\* not ended by that error.
C1_CrossFailureSkipped ==
  (Done /\ CrossExtractionThrew) =>
      /\ PromptBuilt
      /\ Len(llmLog) = 1

\* C2 (as claimed): a JSON text, the text in a fence with the language tag
\* and the text in a fence without it, each with or without whitespace
\* around it, all decode to the value of the text and are answered 200 with
\* that value; cleaning a cleaned text changes nothing.
C2_FenceTolerant ==
  \A t \in JsonTexts, w \in Wrappings, u \in Surroundings :
    (Done /\ DecodeRan /\ responseText = Surround(u, Wrap(w, t))) =>
        /\ res.status = 200
        /\ res.body = JSONparse(t).value
        /\ cleaned(cleaned(responseText)) = cleaned(responseText)

Unparseable == ~IsJson(cleaned(responseText))

\* C3 (as claimed): a reply that is not JSON after fence stripping and
\* trimming is answered 502 once, with details a non-empty prefix of the
\* reply of at most 500 characters.
C3_NonEmptySnippet ==
  (Done /\ DecodeRan /\ Unparseable) =>
      /\ res.status = 502
      /\ responses = 1
      /\ res.details # <<>>
      /\ IsPrefix(res.details, responseText)
      /\ Len(res.details) <= SnippetLen

\* C3 (amended): a reply that is not JSON after fence stripping and trimming
\* is answered 502 once, without a result body, with details the prefix of
\* the reply of length min(500, length of the reply): empty exactly when the
\* reply text is empty.
C3_BoundedSnippet ==
  (Done /\ DecodeRan /\ Unparseable) =>
      /\ res.status = 502
      /\ responses = 1
      /\ res.body = <<>>
      /\ IsPrefix(res.details, responseText)
      /\ Len(res.details) = Min(SnippetLen, Len(responseText))
      /\ (res.details = <<>> <=> responseText = <<>>)

\* a reply longer than 500 characters was cut to 500 in a 502 answer
C3_Witness ==
  /\ Done /\ DecodeRan /\ Unparseable
  /\ Len(responseText) > SnippetLen
  /\ Len(res.details) = SnippetLen

LacksInput ==
  \/ req.file = <<>>
  \/ trimmedLanguage(req) = <<>>
  \/ normalizedOutputs(req) = <<>>

\* C4 (as claimed): a request without main file, with a blank target
\* language or without outputs is answered 400, and nothing is extracted and
\* the LLM is not called.
C4_Always400 ==
  LacksInput =>
      /\ extractLog = <<>>
      /\ llmLog = <<>>
      /\ Done => res.status = 400

\* C4 (amended): such a request never has a text extracted and never calls
\* the LLM; it is answered with an error, which is 400 when the API
\* credential is set and the upload was accepted, and 500 when the upload
\* was accepted and the credential is not set.
C4_NoSideEffects ==
  LacksInput =>
      /\ extractLog = <<>>
      /\ llmLog = <<>>
      /\ Done => /\ res.status \in {400, 500}
                 /\ (apiKeySet /\ uploadAccepts(req)) => res.status = 400
                 /\ (~apiKeySet /\ uploadAccepts(req)) => res.status = 500

\* a request with a main file and a language but no outputs was answered 400 by the validation
C4_Witness ==
  /\ Done /\ res.status = 400
  /\ req.file # <<>> /\ trimmedLanguage(req) # <<>> /\ normalizedOutputs(req) = <<>>
  /\ trace = <<"validate", "respond">>

MainUnsupported ==
  /\ req.file # <<>>
  /\ ~ExtRegexTest(req.file[1].originalname)
  /\ req.file[1].mimetype \notin {PdfMime, DocxMime}

\* C5 (as claimed): a request whose main file is neither PDF nor DOCX by
\* extension or MIME type is answered 400 and the LLM is not called.
C5_Unsupported400 ==
  MainUnsupported =>
      /\ llmLog = <<>>
      /\ Done => res.status = 400

EmptyDocumentError == "Could not extract text from the uploaded file"

MainEmpty ==
  /\ extractLog # <<>>
  /\ extractLog[1].who = 0 /\ ~extractLog[1].threw /\ extractLog[1].empty

\* C6: when the main file is extracted and its trimmed text is empty, the
\* request ends with 400 and the empty-document error; no cross file is
\* extracted, no prompt is built, the LLM is not called; a failed extraction
\* of the main file ends with another error.
C6_EmptyDocument ==
  /\ MainEmpty =>
        /\ Done
        /\ res = ErrorResponse(400, EmptyDocumentError)
        /\ Len(extractLog) = 1
        /\ ~PromptBuilt /\ prompt = <<>>
        /\ llmLog = <<>>
  /\ (Done /\ MainExtractionThrew) => res.error # EmptyDocumentError

\* an empty main text ended a request that asked for cross documents and uploaded some
C6_Witness ==
  /\ MainEmpty /\ Done
  /\ wantsCross(outputs) /\ Len(req.crossFiles) > 0

\* C7: the LLM is called at most once per request, exactly once when the
\* request reaches the call; a failed call ends the request at once with
\* 500 and the message of the error, without a second call.
C7_SingleCall ==
  /\ Len(llmLog) <= 1
  /\ ("callLLM" \in Range(trace) \/ pc = "decode") => Len(llmLog) = 1
  /\ (pc = "decode" \/ DecodeRan) => llmLog = <<"returned">>
  /\ (llmLog # <<>> /\ llmLog[1] = "threw") =>
        /\ Done
        /\ res = ErrorResponse(500, LLMError.message)
        /\ responses = 1

\* the one call of the LLM failed and the request ended
C7_Witness == Done /\ llmLog = <<"threw">> /\ res.status = 500

Steps == <<"validate", "extractMain", "extractCross", "buildPrompt", "callLLM", "decode", "respond">>
StepRank(step) == CHOOSE k \in 1..Len(Steps) : Steps[k] = step

TraceInOrder ==
  /\ \A a, b \in 1..Len(trace) :
        a < b => /\ StepRank(trace[a]) <= StepRank(trace[b])
                 /\ trace[a] = trace[b] => trace[a] = "extractCross"
  /\ CountOf(trace, "extractCross") <= Len(req.crossFiles)
  /\ CountOf(trace, "respond") = responses
  /\ responses <= 1
  /\ Done <=> responses = 1

\* C8: the steps of a request run in the order validate, extract main text,
\* extract cross text (one extraction per cross file), build prompt, call
\* LLM, decode, respond, each at most once; nothing runs after the response;
\* every request eventually has exactly one response.
C8_LinearPipeline == [](TraceInOrder) /\ <>(Done /\ responses = 1)

\* a request ran every step
C8_Witness ==
  /\ Done /\ res.status = 200
  /\ trace = <<"validate", "extractMain", "extractCross", "extractCross",
               "buildPrompt", "callLLM", "decode", "respond">>

CrossRequested == "cross_reference" \in Range(outputs) \/ "generate_template" \in Range(outputs)

\* C9: the prompt has the cross-document section, its header followed by
\* the cross text or the none-provided marker, iff the outputs include
\* cross_reference or generate_template; otherwise it has no such header
\* and no marker and ends after the main document.
C9_CrossSection ==
  PromptBuilt =>
    IF CrossRequested
    THEN /\ Cardinality({k \in 1..Len(prompt) : prompt[k].lit = CrossHeaderLit}) = 1
         /\ Len(prompt) >= 2
         /\ prompt[Len(prompt) - 1].lit = CrossHeaderLit
         /\ prompt[Len(prompt)].arg = (IF crossText # <<>> THEN crossText ELSE NoneProvided)
    ELSE /\ \A k \in 1..Len(prompt) : prompt[k].lit # CrossHeaderLit /\ prompt[k].arg # NoneProvided
         /\ prompt[Len(prompt)] = BlankLine
         /\ prompt[Len(prompt) - 1] = BlankLine
         /\ prompt[Len(prompt) - 2].arg = docText

\* a prompt without the section was built for a request that uploaded cross files
C9_Witness == PromptBuilt /\ ~CrossRequested /\ Len(req.crossFiles) > 0

\* C10: for outputs drawn from the six identifiers, the prompt has exactly
\* one line naming the field of each requested identifier and exactly one
\* line with its instruction, the same line, and no such line for an
\* identifier that was not requested.
C10_SchemaSymmetry ==
  (PromptBuilt /\ Range(outputs) \subseteq Range(OUTPUT_IDS)) =>
    /\ \A id \in Range(OUTPUT_IDS) :
         LET fieldLines == {k \in 1..Len(prompt) : prompt[k].key = OutputField(id)}
             instructionLines == {k \in 1..Len(prompt) : prompt[k].lit = OutputInstruction(id)}
         IN /\ Cardinality(fieldLines) = (IF id \in Range(outputs) THEN 1 ELSE 0)
            /\ instructionLines = fieldLines
    /\ \A k \in 1..Len(prompt) :
         prompt[k].key # "" => \E id \in Range(outputs) : prompt[k].key = OutputField(id)

\* a prompt was built for three of the six identifiers
C10_Witness == PromptBuilt /\ outputs = <<"translation", "todos", "generate_template">>

(***************************************************************************)
(* Properties of the extractor, the response and the cross text.           *)
(***************************************************************************)
\* the file an entry of extractLog is about
FileOf(who) == IF who = 0 THEN req.file[1] ELSE req.crossFiles[who]

\* the kind of a file when the extension decides first and the MIME type second
KindByExtensionFirst(file) ==
  LET name == toLowerCase(file.originalname) IN
  IF endsWith(name, DotPdf) THEN "pdf"
  ELSE IF endsWith(name, DotDocx) THEN "docx"
  ELSE IF file.mimetype = PdfMime THEN "pdf"
  ELSE IF includes(file.mimetype, Wordprocessingml) THEN "docx"
  ELSE "none"

\* C11: every call of the extractor resolves the kind of its file by the
\* extension first and by the MIME type only when the extension is neither
\* .pdf nor .docx; a file named .docx with the PDF MIME type is read as DOCX.
C11_ExtensionFirst ==
  \A k \in 1..Len(extractLog) :
    extractLog[k].kind = KindByExtensionFirst(FileOf(extractLog[k].who))

\* the JSON texts of the model that a reply text holds
IsInfix(t, s) == \E k \in 0..(Len(s) - Len(t)) : SubSeq(s, k + 1, k + Len(t)) = t
SentJson == {t \in JsonTexts : IsInfix(t, responseText)}
Canonical(t) == JsonValueFrom(t, 1, FALSE)
AllFields == {FieldText(id) : id \in Range(OUTPUT_IDS)}

\* C12: a 200 response carries the value parsed from the reply of the LLM,
\* unchanged: it is the value of the JSON text the LLM sent, whatever the
\* requested outputs are, and a 200 response is sent for nothing else.
C12_BodyUnchanged ==
  res.status = 200 =>
    /\ DecodeRan
    /\ res.body = Canonical(cleaned(responseText))
    /\ \E t \in SentJson : res.body = Canonical(t)
    /\ res.error = "" /\ res.details = <<>>

\* a 200 response whose body lacks a requested field: translation was
\* requested and the LLM sent an object without translated_text
C12_Witness ==
  /\ res.status = 200
  /\ "translation" \in Range(outputs)
  /\ res.body = Canonical(JsonSummaryText)

\* C13 as claimed: the keys of a 200 body are among the six fields and each
\* is the field of a requested output.
C13_RequestedKeysOnly ==
  res.status = 200 =>
    /\ ObjectKeys(res.body) \subseteq AllFields
    /\ ObjectKeys(res.body) \subseteq RequestedFields

\* C13: the keys of a 200 body are exactly the keys of the object the LLM
\* sent, whether or not they were requested and whether or not they are
\* among the six fields.
C13_SuppliedKeys ==
  res.status = 200 =>
    \E t \in SentJson : ObjectKeys(res.body) = ObjectKeys(Canonical(t))

\* a 200 response with a key of the six fields whose output was not requested
C13_Witness ==
  /\ res.status = 200
  /\ ObjectKeys(res.body) = {FieldText("summary")}
  /\ "summary" \notin Range(outputs)

\* the values of the outputs field of the request, as the client sent them
RawOutputs == IF req.outputs.tag = "array" THEN req.outputs.arr
              ELSE IF req.outputs.tag = "string" THEN <<req.outputs.str>>
              ELSE <<>>

\* C14 as claimed: every identifier that reaches prompt building, and the
\* LLM call, is one of the six identifiers.
C14_EnumeratedOnly ==
  (PromptBuilt \/ llmLog # <<>>) => Range(outputs) \subseteq Range(OUTPUT_IDS)

\* C14: the identifiers that reach prompt building and the LLM call are the
\* non-empty strings of the outputs field, in order, in the enumeration or
\* not; all are listed in the line of the requested outputs, and only those
\* of the enumeration have a requirement line.
C14_NonEmptyStringsPass ==
  (PromptBuilt \/ llmLog # <<>>) =>
    /\ outputs # <<>>
    /\ Range(outputs) = Range(RawOutputs) \ {""}
    /\ Len(outputs) = Cardinality({k \in 1..Len(RawOutputs) : RawOutputs[k] # ""})
    /\ \E k \in 1..Len(prompt) : prompt[k].lit = "Requested outputs: " /\ prompt[k].arg = outputs
    /\ \A k \in 1..Len(prompt) :
         prompt[k].key # "" =>
           \E id \in Range(outputs) \cap Range(OUTPUT_IDS) : prompt[k].key = OutputField(id)

\* the LLM was called for a request with an identifier outside the enumeration
C14_Witness == llmLog # <<>> /\ "other" \in Range(outputs) /\ "other" \in Range(RawOutputs)

\* the entries of extractLog about cross files, in order, and those whose
\* text was kept
CrossEntries == SelectSeq(extractLog, LAMBDA e : e.who > 0)
RetainedEntries == SelectSeq(CrossEntries, LAMBDA e : ~e.threw /\ ~e.empty)

\* the blocks of the retained entries with one blank line between them,
\* with the header naming the file by its original filename, or by the
\* word file for an empty name when orFile holds
OriginalName(who) == req.crossFiles[who].originalname
HeaderName(who, orFile) ==
  IF orFile /\ OriginalName(who) = <<>> THEN DefaultFileName ELSE OriginalName(who)

RECURSIVE BlocksFrom(_, _, _)
BlocksFrom(entries, k, orFile) ==
  IF k > Len(entries) THEN <<>>
  ELSE (IF k > 1 THEN <<"\n", "\n">> ELSE <<>>)
       \o CrossHeadOpen \o NumText(entries[k].who) \o CrossHeadSep
       \o HeaderName(entries[k].who, orFile)
       \o CrossHeadClose \o <<"\n">> \o entries[k].text
       \o BlocksFrom(entries, k + 1, orFile)

\* the cross files are read in upload order when the section is wanted, and not at all otherwise
CrossReadInOrder ==
  /\ \A k \in 1..Len(CrossEntries) : CrossEntries[k].who = k
  /\ Len(CrossEntries) = (IF CrossRequested THEN Len(req.crossFiles) ELSE 0)

HandlerIds == {1, 2}

serverVars == <<apiKeySet, req, pc, targetLang, outputs, docText, i, parts, crossText,
                prompt, responseText, res, responses, extractLog, llmLog, trace>>

\* the handler of the single request is not running
IdleRequest == [file |-> <<>>, crossFiles |-> <<>>, targetLanguage |-> NoLanguageField,
                outputs |-> NoOutputsField]
ServerIdle ==
  /\ req = IdleRequest
  /\ pc = "done"
  /\ targetLang = <<>> /\ outputs = <<>> /\ docText = <<>> /\ i = 0 /\ parts = <<>>
  /\ crossText = <<>> /\ prompt = <<>> /\ responseText = <<>>
  /\ res = NoResponse /\ responses = 0
  /\ extractLog = <<>> /\ llmLog = <<>> /\ trace = <<>>

\* the requests, the library outcomes and the LLM outcomes of the two invocations
ConcRequests ==
  { [file |-> <<FilePdf>>, crossFiles |-> <<FileDocx>>,
     targetLanguage |-> [present |-> TRUE, text |-> <<" ", "e", "n", " ">>],
     outputs |-> OutputsArray(<<"summary", "cross_reference">>)],
    [file |-> <<FileUpperPdf>>, crossFiles |-> <<FileNoName, FileDocx>>,
     targetLanguage |-> [present |-> TRUE, text |-> <<"d", "e">>],
     outputs |-> OutputsArray(<<"generate_template">>)],
    [file |-> <<FileDocxNamedPdfMime>>, crossFiles |-> <<FileDocx>>,
     targetLanguage |-> [present |-> TRUE, text |-> <<"d", "e">>],
     outputs |-> OutputsString("todos")],
    [file |-> <<FilePdf>>, crossFiles |-> <<>>,
     targetLanguage |-> NoLanguageField,
     outputs |-> OutputsArray(<<"summary">>)] }

ConcLibraryOutcomes ==
  { [threw |-> TRUE,  hasText |-> FALSE, text |-> <<>>],
    [threw |-> FALSE, hasText |-> TRUE,  text |-> <<" ", "\n">>],
    [threw |-> FALSE, hasText |-> TRUE,  text |-> <<" ", "d", "\n">>] }

ConcLLMOutcomes ==
  { [threw |-> TRUE, content |-> <<>>],
    [threw |-> FALSE, content |-> <<TextBlock(JsonSummaryText)>>],
    [threw |-> FALSE, content |-> <<TextBlock(NotJsonText)>>] }

NoLibraryOutcome == [threw |-> FALSE, hasText |-> FALSE, text |-> <<>>]
NoLLMOutcome == [threw |-> FALSE, content |-> <<>>]

\* what a step of the handler at position p waits for
InputsFor(p) ==
  IF p \in {"extractMain", "extractCross"}
  THEN {[lib |-> l, llm |-> NoLLMOutcome] : l \in ConcLibraryOutcomes}
  ELSE IF p = "callLLM"
  THEN {[lib |-> NoLibraryOutcome, llm |-> o] : o \in ConcLLMOutcomes}
  ELSE {[lib |-> NoLibraryOutcome, llm |-> NoLLMOutcome]}

NewCall(rq) == [req |-> rq, pc |-> "upload", res |-> NoResponse]

EmptyFrame == [targetLang |-> <<>>, outputs |-> <<>>, docText |-> <<>>, i |-> 0, parts |-> <<>>,
               crossText |-> <<>>, prompt |-> <<>>, responseText |-> <<>>]

Answered(c, r) == [c EXCEPT !.res = r, !.pc = "done"]

\* one step of an invocation c with the local variables f: the same steps
\* as Upload, Validate, ExtractMain, ExtractCross, BuildPrompt, CallLLM and
\* Decode, as a function of the state of the invocation
HandlerStep(c, f, in) ==
  CASE c.pc = "upload" ->
         [call |-> IF uploadAccepts(c.req) THEN [c EXCEPT !.pc = "validate"]
                   ELSE Answered(c, ErrorResponse(500, "Only PDF and DOCX files are allowed")),
          frame |-> f]
    [] c.pc = "validate" ->
         LET v == validate(apiKeySet, c.req) IN
         IF v # NoResponse
         THEN [call |-> Answered(c, v), frame |-> f]
         ELSE [call |-> [c EXCEPT !.pc = "extractMain"],
               frame |-> [f EXCEPT !.targetLang = trimmedLanguage(c.req),
                                   !.outputs = normalizedOutputs(c.req)]]
    [] c.pc = "extractMain" ->
         LET r == extractText(c.req.file[1], in.lib) IN
         IF r.threw THEN [call |-> Answered(c, catchResponse(r)), frame |-> f]
         ELSE IF isFalsyText(r.text)
         THEN [call |-> Answered(c, ErrorResponse(400, "Could not extract text from the uploaded file")),
               frame |-> [f EXCEPT !.docText = r.text]]
         ELSE [call |-> [c EXCEPT !.pc = IF wantsCross(f.outputs) /\ Len(c.req.crossFiles) > 0
                                         THEN "extractCross" ELSE "buildPrompt"],
               frame |-> [f EXCEPT !.docText = r.text, !.crossText = <<>>, !.parts = <<>>, !.i = 0]]
    [] c.pc = "extractCross" ->
         LET file == c.req.crossFiles[f.i + 1]
             r == extractText(file, in.lib)
             newParts == IF isFalsyText(r.text) THEN f.parts
                         ELSE Append(f.parts, crossPart(f.i, file, r.text))
         IN
         IF r.threw THEN [call |-> Answered(c, catchResponse(r)), frame |-> f]
         ELSE IF f.i + 1 < Len(c.req.crossFiles)
         THEN [call |-> c, frame |-> [f EXCEPT !.parts = newParts, !.i = f.i + 1]]
         ELSE [call |-> [c EXCEPT !.pc = "buildPrompt"],
               frame |-> [f EXCEPT !.parts = newParts, !.i = f.i + 1,
                                   !.crossText = join(newParts, <<"\n", "\n">>)]]
    [] c.pc = "buildPrompt" ->
         [call |-> [c EXCEPT !.pc = "callLLM"],
          frame |-> [f EXCEPT !.prompt = buildPrompt(f.outputs, f.targetLang, f.docText, f.crossText)]]
    [] c.pc = "callLLM" ->
         IF in.llm.threw THEN [call |-> Answered(c, catchResponse(LLMError)), frame |-> f]
         ELSE [call |-> [c EXCEPT !.pc = "decode"],
               frame |-> [f EXCEPT !.responseText = textOf(in.llm.content)]]
    [] c.pc = "decode" ->
         LET d == decode(f.responseText) IN
         [call |-> Answered(c, IF d.ok THEN SuccessResponse(d.value) ELSE NonJsonResponse(f.responseText)),
          frame |-> f]
    [] OTHER -> [call |-> c, frame |-> f]

\* a mutation of frameOf: the local variables are declared at module level,
\* one set for all invocations
frameOfShared(r) == 1

\* the local variables of invocation r: its own
frameOf(r) == r

HandlerRuns(r) ==
  /\ calls[r].pc # "done"
  /\ \E in \in InputsFor(calls[r].pc) :
     \E n \in {HandlerStep(calls[r], frames[frameOf(r)], in)} :
       /\ calls' = [calls EXCEPT ![r] = n.call]
       /\ frames' = [frames EXCEPT ![frameOf(r)] = n.frame]
       /\ inputs' = [inputs EXCEPT ![r] = Append(@, in)]
  /\ UNCHANGED <<serverVars, clientVars>>

ConcInit ==
  /\ ServerIdle
  /\ ClientIdle
  /\ apiKeySet \in BOOLEAN
  /\ calls \in [HandlerIds -> {NewCall(rq) : rq \in ConcRequests}]
  /\ frames = [r \in HandlerIds |-> EmptyFrame]
  /\ inputs = [r \in HandlerIds |-> <<>>]

ConcNext == \E r \in HandlerIds : HandlerRuns(r)

ConcSpec == ConcInit /\ [][ConcNext]_vars

\* the invocation of request rq run alone through the answers ins
RECURSIVE RunAlone(_, _, _, _)
RunAlone(c, f, ins, k) ==
  IF k > Len(ins) THEN [call |-> c, frame |-> f]
  ELSE CHOOSE x \in {RunAlone(n.call, n.frame, ins, k + 1) : n \in {HandlerStep(c, f, ins[k])}} : TRUE

\* C15: whatever the order in which the continuations of two requests run,
\* the position, the response and the local variables of each request, its
\* prompt among them, are those of the request run alone with the same
\* answers of the extractor and of the LLM.
C15_NoInterference ==
  \A r \in DOMAIN calls :
    LET alone == RunAlone(NewCall(calls[r].req), EmptyFrame, inputs[r], 1) IN
    /\ calls[r] = alone.call
    /\ frames[r] = alone.frame

\* both requests are suspended at their LLM call, each with its own prompt
C15_Witness ==
  /\ DOMAIN calls = HandlerIds
  /\ calls[1].pc = "callLLM" /\ calls[2].pc = "callLLM"
  /\ calls[1].req # calls[2].req
  /\ frames[1].prompt # <<>> /\ frames[2].prompt # <<>>
  /\ frames[1].prompt # frames[2].prompt

(***************************************************************************)
(* The browser client, lines 192-378.  The values of the response body     *)
(* are JavaScript values: t is the type, v what the value holds.           *)
(***************************************************************************)
Undefined == [t |-> "undefined", v |-> <<>>]
Null == [t |-> "null", v |-> <<>>]
Str(s) == [t |-> "str", v |-> s]
Num(n) == [t |-> "num", v |-> n]
Arr(a) == [t |-> "arr", v |-> a]
Obj(o) == [t |-> "obj", v |-> o]

\* v == null
IsNullish(x) == x.t \in {"undefined", "null"}

\* Boolean(x)
Truthy(x) ==
  CASE x.t \in {"undefined", "null"} -> FALSE
    [] x.t = "str" -> x.v # <<>>
    [] x.t = "num" -> x.v # 0
    [] OTHER -> TRUE

\* x || d
OrElse(x, d) == IF Truthy(x) THEN x ELSE d

\* x?.key, and x[key] of a value that is not null or undefined: the model's
\* keys are names, never indices
Get(x, key) == IF x.t = "obj" /\ key \in DOMAIN x.v THEN x.v[key] ELSE Undefined

\* typeof x === "object"
TypeofObject(x) == x.t \in {"null", "arr", "obj"}

\* String(x)
RECURSIVE StringOf(_)
StringOf(x) ==
  CASE x.t = "undefined" -> <<"u","n","d","e","f","i","n","e","d">>
    [] x.t = "null" -> <<"n","u","l","l">>
    [] x.t = "str" -> x.v
    [] x.t = "num" -> NumText(x.v)
    [] x.t = "arr" -> join([k \in 1..Len(x.v) |->
                              IF IsNullish(x.v[k]) THEN <<>> ELSE StringOf(x.v[k])], <<",">>)
    [] OTHER -> <<"[","o","b","j","e","c","t"," ","O","b","j","e","c","t","]">>

\* the replacements of esc, character by character
escChar(c) ==
  CASE c = "&" -> <<"&","a","m","p",";">>
    [] c = "<" -> <<"&","l","t",";">>
    [] c = ">" -> <<"&","g","t",";">>
    [] c = "\"" -> <<"&","q","u","o","t",";">>
    [] OTHER -> <<c>>

\* const esc = s => String(s ?? "").replace(...)
esc(s) ==
  LET text == IF IsNullish(s) THEN <<>> ELSE StringOf(s)
  IN join([k \in 1..Len(text) |-> escChar(text[k])], <<>>)

\* const toArr = v => (v == null ? [] : Array.isArray(v) ? v : [v])
toArr(v) == IF IsNullish(v) THEN <<>> ELSE IF v.t = "arr" THEN v.v ELSE <<v>>

\* the names of DEPARTMENTS as texts
DepartmentText(d) ==
  CASE d = "Finance" -> <<"F","i","n","a","n","c","e">>
    [] d = "Compliance" -> <<"C","o","m","p","l","i","a","n","c","e">>
    [] d = "Operations" -> <<"O","p","e","r","a","t","i","o","n","s">>
    [] d = "HR" -> <<"H","R">>
    [] d = "Board" -> <<"B","o","a","r","d">>
    [] d = "IT" -> <<"I","T">>

Unassigned == <<"U","n","a","s","s","i","g","n","e","d">>

\* renderKeyPoints(data): what keyPointsEl shows, a note or one entry per item
renderKeyPoints(data) ==
  LET items == toArr(Get(data, "key_points")) IN
  IF Len(items) = 0 THEN [note |-> "No key points.", items |-> <<>>]
  ELSE [note |-> "",
        items |-> [k \in 1..Len(items) |->
                     LET kp == items[k]
                         tags == SelectSeq(toArr(Get(kp, "tags")), Truthy)
                     IN [badge |-> esc(OrElse(Get(kp, "department"), Str(Unassigned))),
                         tags |-> [n \in 1..Len(tags) |-> esc(tags[n])],
                         point |-> esc(OrElse(Get(kp, "point"), Str(<<>>)))]]]

\* renderTodos(data): what todosEl shows, a note or one entry per department
renderTodos(data) ==
  LET byDept == Get(data, "todos_by_department") IN
  IF ~Truthy(byDept) \/ ~TypeofObject(byDept) THEN [note |-> "No to-dos.", depts |-> <<>>]
  ELSE [note |-> "",
        depts |-> [k \in 1..Len(DEPARTMENTS) |->
                     LET items == toArr(Get(byDept, DEPARTMENTS[k])) IN
                     [dept |-> esc(Str(DepartmentText(DEPARTMENTS[k]))),
                      items |-> [n \in 1..Len(items) |->
                                   [task |-> esc(OrElse(Get(items[n], "task"), Str(<<>>))),
                                    source |-> IF Truthy(Get(items[n], "source_point"))
                                               THEN esc(Get(items[n], "source_point"))
                                               ELSE <<>>]]]]]

\* renderTemplate(data): the value kept in originalTemplateText
templateOf(data) == OrElse(Get(data, "response_template"), Str(<<>>))

\* s.replace(/"/g, '""')
doubleQuotes(s) == join([k \in 1..Len(s) |-> IF s[k] = "\"" THEN <<"\"", "\"">> ELSE <<s[k]>>], <<>>)

\* the rows the click handler of exportTodosBtn pushes: threw when
\* .replace is called on a value that is no string
exportRows(result) ==
  LET byDept == Get(result, "todos_by_department")
      cells == [k \in 1..Len(DEPARTMENTS) |->
                  LET items == toArr(Get(byDept, DEPARTMENTS[k])) IN
                  [n \in 1..Len(items) |->
                     [dept |-> DepartmentText(DEPARTMENTS[k]),
                      task |-> OrElse(Get(items[n], "task"), Str(<<>>)),
                      source |-> OrElse(Get(items[n], "source_point"), Str(<<>>))]]]
      all == join(cells, <<>>)
  IN [threw |-> \E n \in 1..Len(all) : all[n].task.t # "str" \/ all[n].source.t # "str",
      rows |-> all]

\* rows.map(r => r.map(v => `"${v}"`).join(",")).join("\n") with the header row
csvText(rows) ==
  LET quoted(v) == <<"\"">> \o v \o <<"\"">>
      line(r) == quoted(r.dept) \o <<",">> \o quoted(doubleQuotes(r.task.v))
                 \o <<",">> \o quoted(doubleQuotes(r.source.v))
      header == <<"\"","d","e","p","a","r","t","m","e","n","t","\"",",",
                  "\"","t","a","s","k","\"",",",
                  "\"","s","o","u","r","c","e","_","p","o","i","n","t","\"">>
  IN join(<<header>> \o [n \in 1..Len(rows) |-> line(rows[n])], <<"\n">>)

(***************************************************************************)
(* The page: its state after loading, and the handlers of its events.      *)
(***************************************************************************)
MaxSubmits == 2

\* the output checkboxes the user of the model touches; the others stay unchecked
ClientOutputs == {"key_points", "todos", "generate_template"}

\* bodies of a 200 response
Legal == <<"L","e","g","a","l">>
KeyPointsMixed ==
  Arr(<< Obj([point |-> Str(<<"a","<","b">>), department |-> Str(DepartmentText("Finance")),
              tags |-> Arr(<<Str(<<"t">>), Str(<<>>)>>)]),
         Obj([point |-> Str(<<"q">>), department |-> Str(Legal)]),
         Obj([point |-> Str(<<"r">>)]) >>)
TodosSubset ==
  Obj([Finance |-> Arr(<<Obj([task |-> Str(<<"t","\"">>), source_point |-> Str(<<"p">>)])>>),
       IT |-> Arr(<<Obj([task |-> Str(<<"u">>)])>>)])
BodyFull == Obj([key_points |-> KeyPointsMixed, todos_by_department |-> TodosSubset,
                 response_template |-> Str(<<"T">>)])
BodyNumberTask == Obj([key_points |-> Obj([point |-> Str(<<"s">>), department |-> Null]),
                       todos_by_department |-> Obj([Finance |-> Arr(<<Obj([task |-> Num(5)])>>)])])
ResponseBodies == {BodyFull, BodyNumberTask}

NotRequested == [note |-> "Not requested."]

\* updateAnalyzeEnabled(), lines 234-239, for the checked outputs sel
updateAnalyzeEnabled(sel) ==
  /\ analyzeDisabled' = (sel = {})
  /\ statusText' = IF sel = {} THEN "Choose at least one output to enable Analyze." ELSE "Ready."

\* resetResults(), lines 244-252
resetResults ==
  /\ lastResult' = Null
  /\ originalTemplateText' = Str(<<>>)
  /\ keyPointsView' = NoView
  /\ todosView' = NoView
  /\ lastResultFrom' = 0

\* the script has run: lines 241-242
ClientInit ==
  /\ ServerIdle /\ apiKeySet = TRUE
  /\ ConcIdle
  /\ selected \in SUBSET ClientOutputs
  /\ analyzeDisabled = (selected = {})
  /\ statusText = (IF selected = {} THEN "Choose at least one output to enable Analyze." ELSE "Ready.")
  /\ fileChosen = FALSE
  /\ lastResult = Null
  /\ originalTemplateText = Str(<<>>)
  /\ keyPointsView = NoView /\ todosView = NoView
  /\ pending = {} /\ submitted = 0 /\ lastResultFrom = 0 /\ clearedSince = FALSE
  /\ latestFailed = FALSE /\ download = NoDownload /\ exportThrew = FALSE

\* the user checks or unchecks an output: the change listener, line 241
ChangeOutput ==
  /\ \E o \in ClientOutputs :
       LET sel == IF o \in selected THEN selected \ {o} ELSE selected \cup {o} IN
       /\ selected' = sel
       /\ updateAnalyzeEnabled(sel)
  /\ UNCHANGED <<fileChosen, lastResult, originalTemplateText, keyPointsView, todosView, pending,
                 submitted, lastResultFrom, clearedSince, latestFailed, download, exportThrew>>
  /\ UNCHANGED <<serverVars, concVars>>

\* the user picks a file in fileInput
ChooseFile ==
  /\ ~fileChosen
  /\ fileChosen' = TRUE
  /\ UNCHANGED <<selected, analyzeDisabled, statusText, lastResult, originalTemplateText,
                 keyPointsView, todosView, pending, submitted, lastResultFrom, clearedSince,
                 latestFailed, download, exportThrew>>
  /\ UNCHANGED <<serverVars, concVars>>

\* the click handler of clearBtn, lines 254-259
ClearClick ==
  /\ resetResults
  /\ fileChosen' = FALSE
  /\ statusText' = "Cleared. Ready."
  /\ clearedSince' = TRUE
  /\ UNCHANGED <<selected, analyzeDisabled, pending, submitted, latestFailed, download, exportThrew>>
  /\ UNCHANGED <<serverVars, concVars>>

\* the submit handler up to its await, lines 337-360; the form is
\* submitted with the Analyze button, which a disabled button does not do
Submit ==
  /\ ~analyzeDisabled
  /\ submitted < MaxSubmits
  /\ IF ~fileChosen
     THEN /\ statusText' = "Choose a file first."
          /\ UNCHANGED <<analyzeDisabled, lastResult, originalTemplateText, keyPointsView,
                         todosView, pending, submitted, lastResultFrom, clearedSince,
                         latestFailed>>
     ELSE IF selected = {}
     THEN /\ statusText' = "Choose at least one output."
          /\ UNCHANGED <<analyzeDisabled, lastResult, originalTemplateText, keyPointsView,
                         todosView, pending, submitted, lastResultFrom, clearedSince,
                         latestFailed>>
     ELSE /\ analyzeDisabled' = TRUE
          /\ resetResults
          /\ statusText' = "Uploading and analyzing"
          /\ submitted' = submitted + 1
          /\ pending' = pending \cup {[id |-> submitted + 1, outputs |-> selected]}
          /\ clearedSince' = FALSE
          /\ latestFailed' = FALSE
  /\ UNCHANGED <<selected, fileChosen, download, exportThrew>>
  /\ UNCHANGED <<serverVars, concVars>>

\* the submit handler after its await when the response is ok, lines
\* 361-373, and its finally block, line 377
ResponseOk ==
  /\ \E p \in pending, data \in ResponseBodies :
       /\ pending' = pending \ {p}
       /\ lastResult' = data
       /\ lastResultFrom' = p.id
       /\ keyPointsView' = IF "key_points" \in p.outputs THEN renderKeyPoints(data) ELSE NotRequested
       /\ todosView' = IF "todos" \in p.outputs THEN renderTodos(data) ELSE NotRequested
       /\ originalTemplateText' = IF "generate_template" \in p.outputs THEN templateOf(data)
                                  ELSE originalTemplateText
  /\ updateAnalyzeEnabled(selected)
  /\ UNCHANGED <<selected, fileChosen, submitted, clearedSince, latestFailed, download, exportThrew>>
  /\ UNCHANGED <<serverVars, concVars>>

\* the submit handler after its await when the response is not ok, lines
\* 362-365, or when fetch rejects, lines 374-376, and its finally block
RequestFails ==
  /\ \E p \in pending :
       /\ pending' = pending \ {p}
       /\ latestFailed' = (latestFailed \/ p.id = submitted)
  /\ updateAnalyzeEnabled(selected)
  /\ UNCHANGED <<selected, fileChosen, lastResult, originalTemplateText, keyPointsView, todosView,
                 submitted, lastResultFrom, clearedSince, download, exportThrew>>
  /\ UNCHANGED <<serverVars, concVars>>

\* the click handler of exportTodosBtn, lines 325-330
ExportTodos ==
  /\ IF ~Truthy(Get(lastResult, "todos_by_department"))
     THEN /\ statusText' = "No to-dos to export."
          /\ exportThrew' = FALSE
          /\ UNCHANGED download
     ELSE \E e \in {exportRows(lastResult)} :
            IF e.threw
            THEN /\ exportThrew' = TRUE
                 /\ UNCHANGED <<statusText, download>>
            ELSE /\ exportThrew' = FALSE
                 /\ download' = [filename |-> "todos.csv", content |-> csvText(e.rows)]
                 /\ UNCHANGED statusText
  /\ UNCHANGED <<selected, fileChosen, analyzeDisabled, lastResult, originalTemplateText,
                 keyPointsView, todosView, pending, submitted, lastResultFrom, clearedSince,
                 latestFailed>>
  /\ UNCHANGED <<serverVars, concVars>>

HtmlOpen == <<"<","h","t","m","l",">","<","b","o","d","y",">","<","p","r","e",">">>
HtmlClose == <<"<","/","p","r","e",">","<","/","b","o","d","y",">","<","/","h","t","m","l",">">>

\* the click handler of exportTemplateBtn, lines 332-335
ExportTemplate ==
  /\ IF ~Truthy(originalTemplateText)
     THEN /\ statusText' = "No template to export."
          /\ UNCHANGED download
     ELSE /\ download' = [filename |-> "response-template.docx",
                          content |-> HtmlOpen \o esc(originalTemplateText) \o HtmlClose]
          /\ UNCHANGED statusText
  /\ exportThrew' = FALSE
  /\ UNCHANGED <<selected, fileChosen, analyzeDisabled, lastResult, originalTemplateText,
                 keyPointsView, todosView, pending, submitted, lastResultFrom, clearedSince,
                 latestFailed>>
  /\ UNCHANGED <<serverVars, concVars>>

ClientNext ==
  \/ ChangeOutput
  \/ ChooseFile
  \/ ClearClick
  \/ Submit
  \/ ResponseOk
  \/ RequestFails
  \/ ExportTodos
  \/ ExportTemplate

ClientSpec == ClientInit /\ [][ClientNext]_vars

\* a value is the name of one of the six departments
IsDepartment(x) == x.t = "str" /\ \E d \in Range(DEPARTMENTS) : x.v = DepartmentText(d)

\* keyPointsEl, todosEl show what a response was rendered to
KeyPointsRendered == keyPointsView.note \notin {"No data yet.", "Not requested."}
TodosRendered == todosView.note \notin {"No data yet.", "Not requested."}

\* C16: the rendered key points are the items of the response, one entry
\* each, and the label of an entry is the department of its item when that
\* is one of the six names and Unassigned otherwise.
C16_Unassigned ==
  KeyPointsRendered =>
    LET items == toArr(Get(lastResult, "key_points")) IN
    IF Len(items) = 0 THEN keyPointsView.note = "No key points."
    ELSE /\ keyPointsView.note = ""
         /\ Len(keyPointsView.items) = Len(items)
         /\ \A k \in 1..Len(items) :
              keyPointsView.items[k].badge =
                (IF IsDepartment(Get(items[k], "department"))
                 THEN Get(items[k], "department").v ELSE Unassigned)

\* a to-do entry is well formed: an object with a task text and, if any, a source text
WellFormedTask(x) ==
  /\ x.t = "obj"
  /\ Get(x, "task").t = "str"
  /\ Get(x, "source_point").t \in {"str", "undefined"}

\* a mapping of some of the six departments to lists of well-formed entries
WellFormedTodos(x) ==
  /\ x.t = "obj"
  /\ DOMAIN x.v \subseteq Range(DEPARTMENTS)
  /\ \A d \in DOMAIN x.v :
       /\ x.v[d].t = "arr"
       /\ \A n \in 1..Len(x.v[d].v) : WellFormedTask(x.v[d].v[n])

\* C17: the renderer shows no to-do for a value that is no well-formed
\* mapping and all six departments, in order, with the tasks the response
\* has for each, for one that is; the CSV export never ends in an exception.
C17_TodosTolerant ==
  /\ ~exportThrew
  /\ TodosRendered =>
       LET byDept == Get(lastResult, "todos_by_department") IN
       IF WellFormedTodos(byDept)
       THEN /\ todosView.note = ""
            /\ Len(todosView.depts) = Len(DEPARTMENTS)
            /\ \A k \in 1..Len(DEPARTMENTS) :
                 /\ todosView.depts[k].dept = DepartmentText(DEPARTMENTS[k])
                 /\ Len(todosView.depts[k].items) = Len(toArr(Get(byDept, DEPARTMENTS[k])))
       ELSE \/ todosView.note = "No to-dos."
            \/ \A k \in 1..Len(todosView.depts) : todosView.depts[k].items = <<>>

\* C19: while a request is pending the Analyze button is disabled, and no
\* two requests are pending at the same time.
C19_DisabledWhilePending ==
  /\ pending # {} => analyzeDisabled
  /\ Cardinality(pending) <= 1

\* C20: lastResult is kept only from the response to the last request sent
\* and only while Clear was not clicked since; the kept template text is the
\* response_template of lastResult; after a failed last request or a Clear
\* nothing is kept.
C20_CacheConsistent ==
  /\ lastResult # Null => (lastResultFrom = submitted /\ ~clearedSince)
  /\ Truthy(originalTemplateText) => originalTemplateText = Get(lastResult, "response_template")
  /\ (clearedSince \/ latestFailed) => (lastResult = Null /\ ~Truthy(originalTemplateText))

====
